---- MODULE Spec2Model ----
(***************************************************************************)
(* AseReader (src/src/index.ts): decoder and encoder of Adobe Swatch       *)
(* Exchange files.                                                         *)
(*                                                                         *)
(* An ArrayBuffer is a sequence of bytes (0..255); byte offset k of the    *)
(* code is element k+1 of the sequence.  A string is the sequence of its   *)
(* code points.  A float32 is the sequence of its four big-endian bytes.   *)
(* An operation that can throw returns a record with a field "thrown".     *)
(***************************************************************************)
EXTENDS Integers, Sequences, FiniteSets, TLC

(***************************************************************************)
(* Program constants.                                                      *)
(***************************************************************************)
ASE_SIGNATURE == 1095976262            \* 0x41534546, "ASEF"
ASE_SUPPORTED_VERSION == <<1, 0>>      \* the text "1.0": major "." minor
ASE_BLOCK_TYPE_COLOR == 1
ASE_BLOCK_TYPE_GROUP_START == 49153    \* 0xc001
ASE_BLOCK_TYPE_GROUP_END == 49154      \* 0xc002
ASE_COLOR_TYPES == <<"global", "spot", "normal">>
headerSize == 12
groupEndSize == 6

(***************************************************************************)
(* DataView primitives.  A read or write that does not fit in the buffer   *)
(* is a RangeError; InRange is the test the platform makes.                *)
(***************************************************************************)
InRange(buffer, offset, n) == offset >= 0 /\ n >= 0 /\ offset + n <= Len(buffer)

getUint16(buffer, offset) == buffer[offset + 1] * 256 + buffer[offset + 2]

getUint32(buffer, offset) ==
    buffer[offset + 1] * 16777216 + buffer[offset + 2] * 65536
        + buffer[offset + 3] * 256 + buffer[offset + 4]

getFloat32(buffer, offset) == SubSeq(buffer, offset + 1, offset + 4)

Uint16Bytes(value) == << (value % 65536) \div 256, value % 256 >>

Uint32Bytes(value) ==
    << (value \div 16777216) % 256, (value \div 65536) % 256,
       (value \div 256) % 256, value % 256 >>

(***************************************************************************)
(* Text codecs of the platform.                                            *)
(***************************************************************************)
\* TextEncoder().encode of one code point: its UTF-8 bytes.
Utf8OfCodePoint(cp) ==
    IF cp < 128 THEN << cp >>
    ELSE IF cp < 2048 THEN << 192 + (cp \div 64), 128 + (cp % 64) >>
    ELSE IF cp >= 55296 /\ cp <= 57343 THEN << 239, 191, 189 >>
    ELSE IF cp < 65536
        THEN << 224 + (cp \div 4096), 128 + ((cp \div 64) % 64), 128 + (cp % 64) >>
    ELSE << 240 + (cp \div 262144), 128 + ((cp \div 4096) % 64),
            128 + ((cp \div 64) % 64), 128 + (cp % 64) >>

RECURSIVE TextEncode(_)
TextEncode(name) ==
    IF name = << >> THEN << >>
    ELSE Utf8OfCodePoint(Head(name)) \o TextEncode(Tail(name))

\* The 16-bit big-endian units held by an even number of bytes.
RECURSIVE Utf16Units(_)
Utf16Units(bytes) ==
    IF Len(bytes) < 2 THEN << >>
    ELSE << bytes[1] * 256 + bytes[2] >> \o Utf16Units(SubSeq(bytes, 3, Len(bytes)))

IsHighSurrogate(u) == u >= 55296 /\ u <= 56319
IsLowSurrogate(u) == u >= 56320 /\ u <= 57343

RECURSIVE Utf16CodePoints(_)
Utf16CodePoints(units) ==
    IF units = << >> THEN << >>
    ELSE IF IsHighSurrogate(units[1]) /\ Len(units) >= 2 /\ IsLowSurrogate(units[2])
        THEN << 65536 + (units[1] - 55296) * 1024 + (units[2] - 56320) >>
                 \o Utf16CodePoints(SubSeq(units, 3, Len(units)))
    ELSE IF IsHighSurrogate(units[1]) \/ IsLowSurrogate(units[1])
        THEN << 65533 >> \o Utf16CodePoints(Tail(units))
    ELSE << units[1] >> \o Utf16CodePoints(Tail(units))

\* TextDecoder("utf-16be").decode: a leading byte order mark is dropped.
TextDecodeUtf16BE(bytes) ==
    LET units == Utf16Units(bytes)
    IN  IF units # << >> /\ units[1] = 65279
        THEN Utf16CodePoints(Tail(units))
        ELSE Utf16CodePoints(units)

\* String.prototype.trim on the decoded model tag: white space is removed
\* at both ends.  A byte above 127 never decodes to a letter of a model name.
IsWhiteSpace(b) == b \in {9, 10, 11, 12, 13, 32}

RECURSIVE TrimStart(_)
TrimStart(s) ==
    IF s # << >> /\ IsWhiteSpace(Head(s)) THEN TrimStart(Tail(s)) ELSE s

RECURSIVE TrimEnd(_)
TrimEnd(s) ==
    IF s # << >> /\ IsWhiteSpace(s[Len(s)]) THEN TrimEnd(SubSeq(s, 1, Len(s) - 1)) ELSE s

Trim(s) == TrimEnd(TrimStart(s))

ModelName(trimmed) ==
    IF trimmed = << 82, 71, 66 >> THEN "RGB"
    ELSE IF trimmed = << 67, 77, 89, 75 >> THEN "CMYK"
    ELSE IF trimmed = << 71, 114, 97, 121 >> THEN "Gray"
    ELSE IF trimmed = << 76, 65, 66 >> THEN "LAB"
    ELSE "unsupported"

\* color.model.padEnd(4, " ") encoded: the four bytes of the model tag.
ModelTag(model) ==
    IF model = "RGB" THEN << 82, 71, 66, 32 >>
    ELSE IF model = "CMYK" THEN << 67, 77, 89, 75 >>
    ELSE IF model = "Gray" THEN << 71, 114, 97, 121 >>
    ELSE << 76, 65, 66, 32 >>

(***************************************************************************)
(* Number.prototype.toString(16) of Math.floor(value * 255), upper-cased   *)
(* and padded to two characters.  A float32 times 255 is exact in a        *)
(* double, so the floor is computed on integers.  A text is the sequence   *)
(* of its characters.                                                      *)
(***************************************************************************)
RECURSIVE Pow2(_)
Pow2(n) == IF n = 0 THEN 1 ELSE 2 * Pow2(n - 1)

HexChars == << "0", "1", "2", "3", "4", "5", "6", "7", "8", "9",
               "A", "B", "C", "D", "E", "F" >>

RECURSIVE HexDigits(_)
HexDigits(n) ==
    IF n < 16 THEN << HexChars[n + 1] >>
    ELSE HexDigits(n \div 16) \o << HexChars[(n % 16) + 1] >>

padStart2(text) == IF Len(text) < 2 THEN << "0" >> \o text ELSE text

F32Sign(f) == f[1] \div 128
F32Exponent(f) == (f[1] % 128) * 2 + (f[2] \div 128)
F32Mantissa(f) == (f[2] % 128) * 65536 + f[3] * 256 + f[4]

\* floor(|value| * 255) and whether |value| * 255 is an integer, for a
\* normal float32 of biased exponent e < 150 (|value| < 2^23) and mantissa m.
FloorTimes255(e, m) ==
    LET M == 8388608 + m
        A == (M \div 256) * 255
        B == (M % 256) * 255
        j == 150 - e
    IN  IF j > 32 THEN [q |-> 0, exact |-> FALSE]
        ELSE IF j >= 8
        THEN [q |-> (A + (B \div 256)) \div Pow2(j - 8),
              exact |-> (B % 256 = 0) /\ ((A + (B \div 256)) % Pow2(j - 8) = 0)]
        ELSE [q |-> A * Pow2(8 - j) + (B \div Pow2(j)),
              exact |-> B % Pow2(j) = 0]

componentToHex(value) ==
    LET s == F32Sign(value)
        e == F32Exponent(value)
        m == F32Mantissa(value)
    IN  IF e = 255
        THEN IF m # 0 THEN << "N", "A", "N" >>
             ELSE IF s = 1 THEN << "-", "I", "N", "F", "I", "N", "I", "T", "Y" >>
             ELSE << "I", "N", "F", "I", "N", "I", "T", "Y" >>
        ELSE IF e = 0
        THEN IF s = 1 /\ m # 0 THEN << "-", "1" >> ELSE << "0", "0" >>
        ELSE IF e >= 150 THEN << "unmodelled" >>
        ELSE LET f == FloorTimes255(e, m)
             IN  IF s = 0 THEN padStart2(HexDigits(f.q))
                 ELSE padStart2(<< "-" >> \o HexDigits(IF f.exact THEN f.q ELSE f.q + 1))

rgbToHex(r, g, b) == componentToHex(r) \o componentToHex(g) \o componentToHex(b)

(***************************************************************************)
(* Decoder: block parsers.  A parser returns [thrown |-> TRUE, error] or   *)
(* [thrown |-> FALSE, entry, end], end being the offset just after the     *)
(* last byte it read.                                                      *)
(***************************************************************************)
Throw(kind) == [thrown |-> TRUE, error |-> kind]

_readUTF16BE(buffer, offset, length) ==
    IF ~InRange(buffer, offset, (length - 1) * 2)
    THEN Throw("RangeError")
    ELSE [thrown |-> FALSE,
          value |-> TextDecodeUtf16BE(SubSeq(buffer, offset + 1, offset + (length - 1) * 2))]

\* ASE_COLOR_TYPES[colorTypeIndex]; an index out of range reads undefined.
ColorTypeAt(colorTypeIndex) ==
    IF colorTypeIndex < Len(ASE_COLOR_TYPES)
    THEN ASE_COLOR_TYPES[colorTypeIndex + 1]
    ELSE "undefined"

\* ASE_COLOR_TYPES.indexOf(type) stored by setUint16: -1 is stored as 65535.
ColorTypeIndexOf(type) ==
    IF \E i \in 1..Len(ASE_COLOR_TYPES) : ASE_COLOR_TYPES[i] = type
    THEN (CHOOSE i \in 1..Len(ASE_COLOR_TYPES) : ASE_COLOR_TYPES[i] = type) - 1
    ELSE 65535

ComponentCount(model) ==
    IF model = "CMYK" THEN 4 ELSE IF model = "Gray" THEN 1 ELSE 3

\* The color record built by the case of the switch on the model.
ColorOf(model, f, type) ==
    IF model = "RGB"
    THEN [model |-> model, r |-> f[1], g |-> f[2], b |-> f[3],
          hex |-> rgbToHex(f[1], f[2], f[3]), type |-> type]
    ELSE IF model = "CMYK"
    THEN [model |-> model, c |-> f[1], m |-> f[2], y |-> f[3], k |-> f[4], type |-> type]
    ELSE IF model = "Gray"
    THEN [model |-> model, gray |-> f[1], hex |-> rgbToHex(f[1], f[1], f[1]), type |-> type]
    ELSE [model |-> model, lightness |-> f[1], a |-> f[2], b |-> f[3], type |-> type]

\* The default case of the switch on the model.
UnsupportedModel(model) == model \notin {"RGB", "CMYK", "Gray", "LAB"}

_readColor(buffer, offset) ==
    IF ~InRange(buffer, offset, 2) THEN Throw("RangeError")
    ELSE
    LET nameLength == getUint16(buffer, offset)
        colorOffset == offset + 2 + nameLength * 2
        name == _readUTF16BE(buffer, offset + 2, nameLength)
    IN  IF name.thrown THEN name
        ELSE IF ~InRange(buffer, colorOffset, 4) THEN Throw("RangeError")
        ELSE
        LET model == ModelName(Trim(SubSeq(buffer, colorOffset + 1, colorOffset + 4)))
            n == ComponentCount(model)
        IN  IF UnsupportedModel(model) THEN Throw("UnsupportedColorModel")
            ELSE IF ~InRange(buffer, colorOffset + 4, 4 * n + 2) THEN Throw("RangeError")
            ELSE
            LET f == [i \in 1..n |-> getFloat32(buffer, colorOffset + 4 * i)]
                colorTypeIndex == getUint16(buffer, colorOffset + 4 + 4 * n)
                type == ColorTypeAt(colorTypeIndex)
            IN  [thrown |-> FALSE,
                 entry |-> [type |-> "color", name |-> name.value,
                            color |-> ColorOf(model, f, type)],
                 end |-> colorOffset + 4 + 4 * n + 2]

_readGroup(buffer, offset) ==
    IF ~InRange(buffer, offset, 2) THEN Throw("RangeError")
    ELSE
    LET nameLength == getUint16(buffer, offset)
        name == _readUTF16BE(buffer, offset + 2, nameLength)
    IN  IF name.thrown THEN name
        ELSE [thrown |-> FALSE,
              entry |-> [type |-> "group", name |-> name.value, entries |-> << >>],
              end |-> offset + 2 + (nameLength - 1) * 2]

_readGroupEnd == [type |-> "group-end"]

\* The default case of the switch on the block type.
UnsupportedType(type, currentOffset) == Throw("UnsupportedBlockType")

\* Faulty variant: the six bytes of the block header are not skipped.
NextBlockOffset_NoHeader(currentOffset, blockLength) == currentOffset + blockLength

\* Where the next block header is read.
NextBlockOffset(currentOffset, blockLength) == currentOffset + 6 + blockLength

\* One call of the map callback of _readEntries: the block at currentOffset.
ReadBlock(buffer, currentOffset) ==
    IF ~InRange(buffer, currentOffset, 6) THEN Throw("RangeError")
    ELSE
    LET type == getUint16(buffer, currentOffset)
        blockLength == getUint32(buffer, currentOffset + 2)
        parsed ==
            IF type = ASE_BLOCK_TYPE_COLOR THEN _readColor(buffer, currentOffset + 6)
            ELSE IF type = ASE_BLOCK_TYPE_GROUP_START THEN _readGroup(buffer, currentOffset + 6)
            ELSE IF type = ASE_BLOCK_TYPE_GROUP_END
                THEN [thrown |-> FALSE, entry |-> _readGroupEnd, end |-> currentOffset + 6]
            ELSE UnsupportedType(type, currentOffset)
    IN  IF parsed.thrown THEN parsed
        ELSE [thrown |-> FALSE, entry |-> parsed.entry, end |-> parsed.end,
              next |-> NextBlockOffset(currentOffset, blockLength)]

\* Faulty variant: an entry met while the last child of the open group is
\* itself a group is pushed into that child.
ReduceEntry_Descend(accumulatedEntries, entry) ==
    LET n == Len(accumulatedEntries)
    IN  IF n > 0 /\ accumulatedEntries[n].type = "group"
        THEN IF entry.type # "group-end"
             THEN LET kids == accumulatedEntries[n].entries
                      k == Len(kids)
                  IN  IF k > 0 /\ kids[k].type = "group"
                      THEN [accumulatedEntries EXCEPT ![n].entries[k].entries = Append(@, entry)]
                      ELSE [accumulatedEntries EXCEPT ![n].entries = Append(@, entry)]
             ELSE accumulatedEntries
        ELSE Append(accumulatedEntries, entry)

\* Faulty variant: a group-end met while a group is open is pushed to the
\* top level.
ReduceEntry_PushEnd(accumulatedEntries, entry) ==
    LET n == Len(accumulatedEntries)
    IN  IF n > 0 /\ accumulatedEntries[n].type = "group" /\ entry.type # "group-end"
        THEN [accumulatedEntries EXCEPT ![n].entries = Append(@, entry)]
        ELSE Append(accumulatedEntries, entry)

\* Faulty variant: a child is put in front of the group's children.
ReduceEntry_Unshift(accumulatedEntries, entry) ==
    LET n == Len(accumulatedEntries)
    IN  IF n > 0 /\ accumulatedEntries[n].type = "group"
        THEN IF entry.type # "group-end"
             THEN [accumulatedEntries EXCEPT ![n].entries = << entry >> \o @]
             ELSE accumulatedEntries
        ELSE Append(accumulatedEntries, entry)

\* One call of the reduce callback of read.
ReduceEntry(accumulatedEntries, entry) ==
    LET n == Len(accumulatedEntries)
    IN  IF n > 0 /\ accumulatedEntries[n].type = "group"
        THEN IF entry.type # "group-end"
             THEN [accumulatedEntries EXCEPT ![n].entries = Append(@, entry)]
             ELSE accumulatedEntries
        ELSE Append(accumulatedEntries, entry)

(***************************************************************************)
(* Encoder: sizes and block count.                                         *)
(***************************************************************************)
_getColorDataSize(color) ==
    IF color.model \in {"RGB", "LAB"} THEN 4 + 4 * 3 + 2
    ELSE IF color.model = "CMYK" THEN 4 + 4 * 4 + 2
    ELSE 4 + 4 + 2

_calculateColorSize(entry) ==
    LET nameBuffer == TextEncode(entry.name)
        colorDataSize == _getColorDataSize(entry.color)
    IN  6 + 2 + (Len(nameBuffer) + 1) * 2 + colorDataSize

\* The bytes of the group start that _calculateGroupSize counts.
GroupStartSize(nameBuffer) == 6 + 2 + Len(nameBuffer) * 2

RECURSIVE _calculateTotalSize(_)
_calculateGroupSize(entry) ==
    LET nameBuffer == TextEncode(entry.name)
        groupSize == GroupStartSize(nameBuffer)
        entriesSize == _calculateTotalSize(entry.entries)
    IN  groupSize + entriesSize + groupEndSize

_calculateTotalSize(entries) ==
    IF entries = << >> THEN 0
    ELSE LET entry == entries[Len(entries)]
             size == _calculateTotalSize(SubSeq(entries, 1, Len(entries) - 1))
         IN  IF entry.type = "color" THEN size + _calculateColorSize(entry)
             ELSE IF entry.type = "group" THEN size + _calculateGroupSize(entry)
             ELSE size + 6

\* What _countBlocks adds for a group besides its children.
GroupBlocks == 2

RECURSIVE _countBlocks(_)
_countBlocks(entries) ==
    IF entries = << >> THEN 0
    ELSE LET entry == entries[Len(entries)]
             count == _countBlocks(SubSeq(entries, 1, Len(entries) - 1))
         IN  IF entry.type = "group"
             THEN count + _countBlocks(entry.entries) + GroupBlocks
             ELSE count + 1

(***************************************************************************)
(* Encoder: emission.  An emitter returns [calls, offset]: the DataView    *)
(* set-calls it makes, in order, each as [offset, bytes, field], and the   *)
(* offset it returns.  write applies the calls to the allocated buffer; a  *)
(* call that does not fit raises a RangeError and ends the emission.       *)
(***************************************************************************)
setUint8(offset, value) == [offset |-> offset, bytes |-> << value % 256 >>, field |-> "data"]
setUint16(offset, value) == [offset |-> offset, bytes |-> Uint16Bytes(value), field |-> "data"]
setUint32(offset, value) == [offset |-> offset, bytes |-> Uint32Bytes(value), field |-> "data"]
setFloat32(offset, value) == [offset |-> offset, bytes |-> value, field |-> "data"]

\* setUint16(offset, type); setUint32(offset + 2, blockLength).
BlockHeaderCalls(offset, type, blockLength) ==
    << [setUint16(offset, type) EXCEPT !.field = "type"],
       [setUint32(offset + 2, blockLength) EXCEPT !.field = "length"] >>

\* The loop that stores each byte of nameBuffer as one 16-bit unit.
NameCalls(offset, nameBuffer) ==
    [i \in 1..Len(nameBuffer) |-> setUint16(offset + (i - 1) * 2, nameBuffer[i])]

\* The float32 components of a color, in the order they are stored.
Components(color) ==
    IF color.model = "RGB" THEN << color.r, color.g, color.b >>
    ELSE IF color.model = "CMYK" THEN << color.c, color.m, color.y, color.k >>
    ELSE IF color.model = "Gray" THEN << color.gray >>
    ELSE << color.lightness, color.a, color.b >>

_writeColorData(color, offset) ==
    LET modelBuffer == ModelTag(color.model)
        floats == Components(color)
        currentOffset == offset + 4 + 4 * Len(floats)
    IN  [i \in 1..4 |-> setUint8(offset + (i - 1), modelBuffer[i])]
        \o [i \in 1..Len(floats) |-> setFloat32(offset + 4 + (i - 1) * 4, floats[i])]
        \o << setUint16(currentOffset, ColorTypeIndexOf(color.type)) >>

_writeColor(entry, offset) ==
    LET nameBuffer == TextEncode(entry.name)
        colorDataSize == _getColorDataSize(entry.color)
        blockLength == 2 + (Len(nameBuffer) + 1) * 2 + colorDataSize
        currentOffset == offset + 8 + 2 * Len(nameBuffer)
    IN  [calls |-> BlockHeaderCalls(offset, ASE_BLOCK_TYPE_COLOR, blockLength)
                   \o << setUint16(offset + 6, Len(nameBuffer) + 1) >>
                   \o NameCalls(offset + 8, nameBuffer)
                   \o << setUint16(currentOffset, 0) >>
                   \o _writeColorData(entry.color, currentOffset + 2),
         offset |-> offset + 6 + blockLength]

_writeGroupEnd(offset) ==
    [calls |-> BlockHeaderCalls(offset, ASE_BLOCK_TYPE_GROUP_END, 0),
     offset |-> offset + groupEndSize]

RECURSIVE _writeEntries(_, _)
_writeGroup(entry, offset) ==
    LET nameBuffer == TextEncode(entry.name)
        blockLength == 2 + (Len(nameBuffer) + 1) * 2
        children == _writeEntries(entry.entries, offset + 6 + blockLength)
        end == _writeGroupEnd(children.offset)
    IN  [calls |-> BlockHeaderCalls(offset, ASE_BLOCK_TYPE_GROUP_START, blockLength)
                   \o << setUint16(offset + 6, Len(nameBuffer) + 1) >>
                   \o NameCalls(offset + 8, nameBuffer)
                   \o << setUint16(offset + 8 + Len(nameBuffer) * 2, 0) >>
                   \o children.calls
                   \o end.calls,
         offset |-> end.offset]

_writeEntry(entry, offset) ==
    IF entry.type = "color" THEN _writeColor(entry, offset)
    ELSE IF entry.type = "group" THEN _writeGroup(entry, offset)
    ELSE _writeGroupEnd(offset)

_writeEntries(entries, offset) ==
    IF entries = << >> THEN [calls |-> << >>, offset |-> offset]
    ELSE LET one == _writeEntry(Head(entries), offset)
             rest == _writeEntries(Tail(entries), one.offset)
         IN  [calls |-> one.calls \o rest.calls, offset |-> rest.offset]

_writeHeader(entries) ==
    << setUint32(0, ASE_SIGNATURE), setUint16(4, 1), setUint16(6, 0),
       setUint32(8, _countBlocks(entries)) >>

Max(a, b) == IF a >= b THEN a ELSE b

\* The buffer with the bytes of one call stored.
Put(buffer, call) ==
    SubSeq(buffer, 1, call.offset) \o call.bytes
        \o SubSeq(buffer, call.offset + Len(call.bytes) + 1, Len(buffer))

\* The calls applied in order to a dataView [buffer, thrown, blocks, end]:
\* blocks counts the block headers stored whole (type and length), end is
\* the offset just after the last byte stored.
RECURSIVE Apply(_, _)
Apply(dataView, calls) ==
    IF dataView.thrown \/ calls = << >> THEN dataView
    ELSE LET call == Head(calls)
         IN  IF ~InRange(dataView.buffer, call.offset, Len(call.bytes))
             THEN [dataView EXCEPT !.thrown = TRUE]
             ELSE Apply([buffer |-> Put(dataView.buffer, call),
                         thrown |-> FALSE,
                         blocks |-> dataView.blocks + (IF call.field = "length" THEN 1 ELSE 0),
                         end |-> Max(dataView.end, call.offset + Len(call.bytes))],
                        Tail(calls))

\* write(entries): the outcome of the call.  thrown: a RangeError left the
\* call and no buffer is returned; buffer: the ArrayBuffer as allocated and
\* filled; totalSize: its allocated length; end: the offset just after the
\* last byte stored; blocks: the block headers stored by the emission pass.
write(entries) ==
    LET entriesSize == _calculateTotalSize(entries)
        totalSize == headerSize + entriesSize
        buffer == [i \in 1..totalSize |-> 0]
        emission == _writeEntries(entries, headerSize)
        dataView == Apply([buffer |-> buffer, thrown |-> FALSE, blocks |-> 0, end |-> 0],
                          _writeHeader(entries) \o emission.calls)
    IN  [called |-> TRUE,
         thrown |-> dataView.thrown,
         buffer |-> dataView.buffer,
         totalSize |-> totalSize,
         end |-> dataView.end,
         blocks |-> dataView.blocks]

(***************************************************************************)
(* Inputs.                                                                 *)
(***************************************************************************)
MaxBlocks == 3      \* blocks in a buffer given to read
MaxNodes == 4       \* entries (at all depths) in a tree given to write

\* float32 values: 0, 1, 0.5, 2, -1.
F32Zero == << 0, 0, 0, 0 >>
F32One == << 63, 128, 0, 0 >>
F32Half == << 63, 0, 0, 0 >>
F32Two == << 64, 0, 0, 0 >>
F32MinusOne == << 191, 128, 0, 0 >>

NameA == << 65 >>               \* "A"
NameEAcute == << 233 >>         \* U+00E9, not ASCII
NameG == << 71 >>               \* "G"

RedEntry ==
    [type |-> "color", name |-> NameA,
     color |-> ColorOf("RGB", << F32One, F32Zero, F32Zero >>, "normal")]
GrayEntry ==
    [type |-> "color", name |-> NameEAcute,
     color |-> ColorOf("Gray", << F32Half >>, "spot")]
CmykEntry ==
    [type |-> "color", name |-> << >>,
     color |-> ColorOf("CMYK", << F32Zero, F32One, F32Half, F32Zero >>, "global")]

LeafEntries == {RedEntry, GrayEntry, CmykEntry, _readGroupEnd}
GroupNames == {NameG}

RECURSIVE TreesOfSize(_)
TreesOfSize(n) ==
    IF n = 0 THEN {<< >>}
    ELSE {<< leaf >> \o rest : leaf \in LeafEntries, rest \in TreesOfSize(n - 1)}
         \cup UNION {
            {<< [type |-> "group", name |-> nm, entries |-> kids] >> \o rest :
                nm \in GroupNames, kids \in TreesOfSize(k), rest \in TreesOfSize(n - 1 - k)}
            : k \in 0..(n - 1)}

Trees == UNION {TreesOfSize(n) : n \in 0..MaxNodes}

\* Raw blocks of a buffer given to read: type, declared length, payload.
RawBlock(type, blockLength, payload) ==
    Uint16Bytes(type) \o Uint32Bytes(blockLength) \o payload

\* nameLength, the name "A" and its terminator.
RawNameA == << 0, 2, 0, 65, 0, 0 >>

RawRgb == RawNameA \o << 82, 71, 66, 32 >> \o F32One \o F32Zero \o F32Two \o << 0, 2 >>
RawLab == << 0, 1, 0, 0 >> \o << 76, 65, 66, 32 >> \o F32Half \o F32MinusOne \o F32Zero \o << 0, 3 >>
RawXyz == RawNameA \o << 88, 89, 90, 32 >> \o F32One \o F32Zero \o F32Zero \o << 0, 0 >>
RawLabSpaced == << 0, 1, 0, 0 >> \o << 32, 76, 65, 66 >> \o F32One \o F32Zero \o F32Half \o << 0, 1 >>

RawBlocks ==
    { RawBlock(ASE_BLOCK_TYPE_COLOR, Len(RawRgb), RawRgb),
      RawBlock(ASE_BLOCK_TYPE_COLOR, Len(RawLab), RawLab),
      RawBlock(ASE_BLOCK_TYPE_COLOR, Len(RawXyz), RawXyz),
      RawBlock(ASE_BLOCK_TYPE_COLOR, Len(RawLabSpaced), RawLabSpaced), \* tag " LAB"
      RawBlock(ASE_BLOCK_TYPE_COLOR, 0, RawLab),                 \* declares less than it holds
      RawBlock(ASE_BLOCK_TYPE_GROUP_START, Len(RawNameA), RawNameA),
      RawBlock(ASE_BLOCK_TYPE_GROUP_END, 0, << >>),
      RawBlock(ASE_BLOCK_TYPE_GROUP_END, 2, << 0, 0 >>),         \* declares two bytes of padding
      RawBlock(2, 0, << >>) }                                    \* unknown block type

RECURSIVE Concat(_)
Concat(blocks) == IF blocks = << >> THEN << >> ELSE Head(blocks) \o Concat(Tail(blocks))

RawHeader(signature, major, minor, count) ==
    Uint32Bytes(signature) \o Uint16Bytes(major) \o Uint16Bytes(minor) \o Uint32Bytes(count)

BlockLists == UNION {[1..n -> RawBlocks] : n \in 0..MaxBlocks}

\* Buffers with a good header: the count is the number of blocks, one less
\* or one more.
GoodHeaderBuffers ==
    {RawHeader(ASE_SIGNATURE, 1, 0, count) \o Concat(blocks) :
        blocks \in BlockLists, count \in 0..(MaxBlocks + 1)}

\* Buffers with another signature or version.
BadHeaderBuffers ==
    {RawHeader(signature, version[1], version[2], count) \o Concat(blocks) :
        signature \in {ASE_SIGNATURE, ASE_SIGNATURE + 1, 0},
        version \in {<< 1, 0 >>, << 2, 0 >>, << 1, 1 >>, << 0, 1 >>, << 0, 0 >>},
        count \in {0, 1},
        blocks \in {b \in BlockLists : Len(b) <= 1}}

\* Buffers cut short.
Prefixes(buffer) == {SubSeq(buffer, 1, n) : n \in 0..Len(buffer)}
ShortBuffers ==
    UNION {Prefixes(RawHeader(ASE_SIGNATURE, 1, 0, 1) \o block) : block \in RawBlocks}

Buffers == GoodHeaderBuffers \cup BadHeaderBuffers \cup ShortBuffers

(***************************************************************************)
(* State.                                                                  *)
(***************************************************************************)
VARIABLES
    pc,                 \* where the running call stands
    chain,              \* the calls made so far: "", "read", "write", "write-read", "write-read-write"
    tree,               \* the entries given to the first write
    written,            \* the outcome of the first write
    rewritten,          \* the outcome of the write of what read returned
    arrayBuffer,        \* the buffer read is decoding
    numberOfEntries,    \* _readEntries: the count read at offset 8
    currentOffset,      \* _readEntries: offset of the next block
    rawEntries,         \* _readEntries: the entries mapped so far
    headerOffsets,      \* offsets at which a block header was read
    readEnd,            \* offset just after the last byte read so far
    accumulatedEntries, \* read: accumulator of the reduction
    reduced,            \* read: number of raw entries reduced
    result,             \* what read returned
    diagnostic          \* what read logged with console.error

vars == << pc, chain, tree, written, rewritten, arrayBuffer, numberOfEntries,
           currentOffset, rawEntries, headerOffsets, readEnd, accumulatedEntries,
           reduced, result, diagnostic >>

NotWritten ==
    [called |-> FALSE, thrown |-> FALSE, buffer |-> << >>, totalSize |-> 0,
     end |-> 0, blocks |-> 0]

readVars == << numberOfEntries, currentOffset, rawEntries, headerOffsets, readEnd,
               accumulatedEntries, reduced, result, diagnostic >>

Init ==
    /\ pc = "idle"
    /\ chain = ""
    /\ tree = << >>
    /\ written = NotWritten
    /\ rewritten = NotWritten
    /\ arrayBuffer = << >>
    /\ numberOfEntries = 0
    /\ currentOffset = 0
    /\ rawEntries = << >>
    /\ headerOffsets = << >>
    /\ readEnd = 0
    /\ accumulatedEntries = << >>
    /\ reduced = 0
    /\ result = << >>
    /\ diagnostic = "none"

\* Faulty variant: only the major version is compared.
VersionSupported_MajorOnly(major, minor) == major = 1

\* `${major}.${minor}` is the supported version text.
VersionSupported(major, minor) == << major, minor >> = ASE_SUPPORTED_VERSION

\* Faulty variant: the catch clause returns the entries read before the throw.
CatchResult_Partial(partial) == partial

\* What the catch clause of read returns.
CatchResult(partial) == << >>

(***************************************************************************)
(* read(arrayBuffer), one step at a time.                                  *)
(***************************************************************************)
\* A caller hands a buffer to read.
CallRead ==
    /\ pc = "idle"
    /\ \E buffer \in Buffers : arrayBuffer' = buffer
    /\ pc' = "signature"
    /\ chain' = "read"
    /\ UNCHANGED << tree, written, rewritten, readVars >>

\* Lines 112-117: the signature.  The read is outside the try block.
ReadSignature ==
    /\ pc = "signature"
    /\ IF ~InRange(arrayBuffer, 0, 4)
       THEN /\ pc' = "raised"
            /\ UNCHANGED << readEnd, result, diagnostic >>
       ELSE /\ readEnd' = 4
            /\ IF getUint32(arrayBuffer, 0) # ASE_SIGNATURE
               THEN /\ pc' = "returned"
                    /\ result' = << >>
                    /\ diagnostic' = "InvalidSignature"
               ELSE /\ pc' = "version"
                    /\ UNCHANGED << result, diagnostic >>
    /\ UNCHANGED << chain, tree, written, rewritten, arrayBuffer, numberOfEntries,
                    currentOffset, rawEntries, headerOffsets, accumulatedEntries, reduced >>

\* Lines 119-128: the version.  The reads are outside the try block.
ReadVersion ==
    /\ pc = "version"
    /\ IF ~InRange(arrayBuffer, 4, 2) \/ ~InRange(arrayBuffer, 6, 2)
       THEN /\ pc' = "raised"
            /\ UNCHANGED << readEnd, result, diagnostic >>
       ELSE /\ readEnd' = 8
            /\ IF ~VersionSupported(getUint16(arrayBuffer, 4), getUint16(arrayBuffer, 6))
               THEN /\ pc' = "returned"
                    /\ result' = << >>
                    /\ diagnostic' = "UnsupportedVersion"
               ELSE /\ pc' = "count"
                    /\ UNCHANGED << result, diagnostic >>
    /\ UNCHANGED << chain, tree, written, rewritten, arrayBuffer, numberOfEntries,
                    currentOffset, rawEntries, headerOffsets, accumulatedEntries, reduced >>

\* Lines 180-182: _readEntries reads the count, inside the try block.
ReadCount ==
    /\ pc = "count"
    /\ IF ~InRange(arrayBuffer, 8, 4)
       THEN /\ pc' = "returned"
            /\ result' = CatchResult(rawEntries)
            /\ diagnostic' = "RangeError"
            /\ UNCHANGED << numberOfEntries, currentOffset, readEnd >>
       ELSE /\ pc' = "entries"
            /\ numberOfEntries' = getUint32(arrayBuffer, 8)
            /\ currentOffset' = 12
            /\ readEnd' = 12
            /\ UNCHANGED << result, diagnostic >>
    /\ UNCHANGED << chain, tree, written, rewritten, arrayBuffer, rawEntries,
                    headerOffsets, accumulatedEntries, reduced >>

\* Lines 184-215: one call of the map callback; a throw is caught by read.
ReadEntry ==
    /\ pc = "entries"
    /\ Len(rawEntries) < numberOfEntries
    /\ LET block == ReadBlock(arrayBuffer, currentOffset)
       IN  IF block.thrown
           THEN /\ pc' = "returned"
                /\ result' = CatchResult(rawEntries)
                /\ diagnostic' = block.error
                /\ UNCHANGED << currentOffset, rawEntries, headerOffsets, readEnd >>
           ELSE /\ rawEntries' = Append(rawEntries, block.entry)
                /\ headerOffsets' = Append(headerOffsets, currentOffset)
                /\ currentOffset' = block.next
                /\ readEnd' = Max(readEnd, block.end)
                /\ UNCHANGED << pc, result, diagnostic >>
    /\ UNCHANGED << chain, tree, written, rewritten, arrayBuffer, numberOfEntries,
                    accumulatedEntries, reduced >>

\* Lines 132-147: one call of the reduce callback.
Reduce ==
    /\ pc = "entries"
    /\ Len(rawEntries) = numberOfEntries
    /\ reduced < Len(rawEntries)
    /\ accumulatedEntries' = ReduceEntry(accumulatedEntries, rawEntries[reduced + 1])
    /\ reduced' = reduced + 1
    /\ UNCHANGED << pc, chain, tree, written, rewritten, arrayBuffer, numberOfEntries,
                    currentOffset, rawEntries, headerOffsets, readEnd, result, diagnostic >>

\* Line 149: read returns the reduced entries.
Return ==
    /\ pc = "entries"
    /\ Len(rawEntries) = numberOfEntries
    /\ reduced = Len(rawEntries)
    /\ result' = accumulatedEntries
    /\ pc' = "returned"
    /\ UNCHANGED << chain, tree, written, rewritten, arrayBuffer, numberOfEntries,
                    currentOffset, rawEntries, headerOffsets, readEnd,
                    accumulatedEntries, reduced, diagnostic >>

(***************************************************************************)
(* write(entries) and the round trips.                                     *)
(***************************************************************************)
\* A caller hands a tree to write.
CallWrite ==
    /\ pc = "idle"
    /\ \E entries \in Trees :
          /\ tree' = entries
          /\ written' = write(entries)
          /\ pc' = IF write(entries).thrown THEN "raised" ELSE "written"
    /\ chain' = "write"
    /\ UNCHANGED << rewritten, arrayBuffer, readVars >>

\* The buffer write returned is handed to read.
ReadBack ==
    /\ pc = "written"
    /\ chain = "write"
    /\ arrayBuffer' = written.buffer
    /\ pc' = "signature"
    /\ chain' = "write-read"
    /\ UNCHANGED << tree, written, rewritten, readVars >>

\* The entries read returned are handed to write.
WriteBack ==
    /\ pc = "returned"
    /\ chain = "write-read"
    /\ rewritten' = write(result)
    /\ pc' = IF write(result).thrown THEN "raised" ELSE "written"
    /\ chain' = "write-read-write"
    /\ UNCHANGED << tree, written, arrayBuffer, readVars >>

Next ==
    \/ CallRead
    \/ ReadSignature
    \/ ReadVersion
    \/ ReadCount
    \/ ReadEntry
    \/ Reduce
    \/ Return
    \/ CallWrite
    \/ ReadBack
    \/ WriteBack

Spec == Init /\ [][Next]_vars

TypeOK ==
    /\ pc \in {"idle", "signature", "version", "count", "entries", "returned",
               "raised", "written"}
    /\ chain \in {"", "read", "write", "write-read", "write-read-write"}
    /\ reduced <= Len(rawEntries)

(***************************************************************************)
(* Properties.                                                             *)
(***************************************************************************)
IsAscii(name) == \A i \in 1..Len(name) : name[i] < 128

\* Colors and groups only, ASCII names, groups only at the top level and
\* holding only colors.
ShallowAsciiTree(entries) ==
    \A i \in 1..Len(entries) :
        /\ entries[i].type \in {"color", "group"}
        /\ IsAscii(entries[i].name)
        /\ entries[i].type = "group" =>
              \A j \in 1..Len(entries[i].entries) :
                  /\ entries[i].entries[j].type = "color"
                  /\ IsAscii(entries[i].entries[j].name)

\* C1: for every tree of colors and groups with ASCII names and groups only
\* at the top level holding only colors, write returns a buffer and read of
\* that buffer returns the tree.
C1_DecodeEncodeIsIdentity ==
    (written.called /\ ShallowAsciiTree(tree)) =>
        /\ ~written.thrown
        /\ chain = "write-read" => pc # "raised"
        /\ (chain = "write-read" /\ pc = "returned") => result = tree

\* C2: for every buffer write returns, writing what read returns for it
\* gives the same bytes.
C2_EncodeDecodeIsIdentity ==
    /\ (chain = "write-read" /\ ~written.thrown) => pc # "raised"
    /\ (chain = "write-read-write" /\ rewritten.called) =>
          /\ ~rewritten.thrown
          /\ rewritten.buffer = written.buffer

\* C3: read returns normally for every buffer; a failure is an empty result
\* and a diagnostic.
C3_ReadNeverRaises ==
    chain = "read" =>
        /\ pc # "raised"
        /\ (pc = "returned" /\ diagnostic # "none") => result = << >>

\* C4: the length write allocates is the offset reached after the last
\* block, and every store of the emission pass falls inside the buffer.
C4_ExactAllocation ==
    written.called =>
        /\ ~written.thrown
        /\ written.end = written.totalSize
        /\ Len(written.buffer) = written.totalSize

RECURSIVE NoGroupEnd(_)
NoGroupEnd(entries) ==
    \A i \in 1..Len(entries) :
        /\ entries[i].type # "group-end"
        /\ entries[i].type = "group" => NoGroupEnd(entries[i].entries)

\* C5: the tree read returns for a buffer with a valid header holds no
\* group-end entry, at the top level or in a group.
C5_NoGroupEndInResult ==
    (chain = "read" /\ pc = "returned") => NoGroupEnd(result)

\* C6: a buffer whose first four bytes are not "ASEF", or whose version is
\* not 1.0, yields no entries; the signature is checked first and no block
\* is read.
C6_BadHeaderYieldsNothing ==
    chain = "read" =>
        /\ (/\ pc \notin {"signature"}
            /\ Len(arrayBuffer) >= 4
            /\ SubSeq(arrayBuffer, 1, 4) # << 65, 83, 69, 70 >>)
           => /\ pc = "returned"
              /\ result = << >>
              /\ diagnostic = "InvalidSignature"
              /\ readEnd = 4
              /\ headerOffsets = << >> /\ rawEntries = << >>
        /\ (/\ pc \notin {"signature", "version"}
            /\ Len(arrayBuffer) >= 8
            /\ SubSeq(arrayBuffer, 1, 4) = << 65, 83, 69, 70 >>
            /\ SubSeq(arrayBuffer, 5, 8) # << 0, 1, 0, 0 >>)
           => /\ pc = "returned"
              /\ result = << >>
              /\ diagnostic = "UnsupportedVersion"
              /\ readEnd = 8
              /\ headerOffsets = << >> /\ rawEntries = << >>

\* C6 witness: a version 2.0 buffer with a count and a block was rejected.
C6_Witness ==
    /\ chain = "read" /\ pc = "returned"
    /\ Len(arrayBuffer) > 12
    /\ SubSeq(arrayBuffer, 1, 8) = << 65, 83, 69, 70, 0, 2, 0, 0 >>
    /\ arrayBuffer[12] = 1

\* The offsets of the first k block headers that fit in the buffer, each
\* found from the declared length of the one before.
RECURSIVE CountedOffsets(_, _, _)
CountedOffsets(buffer, offset, k) ==
    IF k = 0 \/ offset + 6 > Len(buffer) THEN << >>
    ELSE << offset >> \o
         CountedOffsets(buffer,
                        offset + 6 + buffer[offset + 3] * 16777216 + buffer[offset + 4] * 65536
                            + buffer[offset + 5] * 256 + buffer[offset + 6],
                        k - 1)

\* The block at offset has an unknown type, or is a color block whose model
\* tag is none of RGB, CMYK, Gray, LAB.
BadBlock(buffer, offset) ==
    LET type == buffer[offset + 1] * 256 + buffer[offset + 2]
        tagAt == offset + 8 + 2 * (buffer[offset + 7] * 256 + buffer[offset + 8])
    IN  \/ type \notin {1, 49153, 49154}
        \/ /\ type = 1
           /\ offset + 8 <= Len(buffer)
           /\ tagAt + 4 <= Len(buffer)
           /\ Trim(SubSeq(buffer, tagAt + 1, tagAt + 4))
                 \notin {<< 82, 71, 66 >>, << 67, 77, 89, 75 >>,
                         << 71, 114, 97, 121 >>, << 76, 65, 66 >>}

\* C7: when a counted block has an unknown type or an unknown color model,
\* read returns the empty sequence; what read returns is empty or made of
\* all the counted blocks.
C7_AllOrNothing ==
    (chain = "read" /\ pc = "returned" /\ Len(arrayBuffer) >= 12
        /\ SubSeq(arrayBuffer, 1, 8) = << 65, 83, 69, 70, 0, 1, 0, 0 >>)
    => LET offsets == CountedOffsets(arrayBuffer, 12, getUint32(arrayBuffer, 8))
       IN  /\ (\E i \in 1..Len(offsets) : BadBlock(arrayBuffer, offsets[i]))
                 => (result = << >> /\ diagnostic # "none")
           /\ result # << >> =>
                 /\ Len(rawEntries) = getUint32(arrayBuffer, 8)
                 /\ diagnostic = "none"

\* C7 witness: a block with model tag "XYZ " after a valid block ended the
\* decode.
C7_Witness ==
    /\ chain = "read" /\ pc = "returned"
    /\ diagnostic = "UnsupportedColorModel"
    /\ Len(rawEntries) >= 1
    /\ result = << >>

\* C8: a group-end closes its group.  When the flat list holds one
\* group-start, then colors, then a group-end, the entry after the
\* group-end (not itself a group-end) is appended to the top level and the
\* group keeps only the colors before the group-end.
C8_GroupEndClosesGroup ==
    (chain = "read" /\ pc = "entries" /\ Len(rawEntries) = numberOfEntries) =>
        \A g, e \in 1..Len(rawEntries) :
            (/\ g < e
             /\ reduced = e + 1
             /\ rawEntries[g].type = "group"
             /\ rawEntries[e].type = "group-end"
             /\ \A j \in 1..(e - 1) : j # g => rawEntries[j].type = "color"
             /\ rawEntries[e + 1].type # "group-end")
            => LET n == Len(accumulatedEntries)
               IN  /\ n >= 2
                   /\ accumulatedEntries[n] = rawEntries[e + 1]
                   /\ accumulatedEntries[n - 1] =
                         [rawEntries[g] EXCEPT !.entries = SubSeq(rawEntries, g + 1, e - 1)]

\* C9: the block count stored at offset 8 is the number of block headers
\* the emission pass stores for the same tree.
C9_CountMatchesEmission ==
    written.called =>
        /\ ~written.thrown
        /\ getUint32(written.buffer, 8) = written.blocks

\* The block length declared by the block header at offset.
DeclaredLength(buffer, offset) ==
    buffer[offset + 3] * 16777216 + buffer[offset + 4] * 65536
        + buffer[offset + 5] * 256 + buffer[offset + 6]

\* The count was read from a buffer with a good header.
Walking ==
    /\ chain = "read"
    /\ pc \in {"entries", "returned"}
    /\ Len(arrayBuffer) >= 12
    /\ SubSeq(arrayBuffer, 1, 8) = << 65, 83, 69, 70, 0, 1, 0, 0 >>

\* C10 (amended): the walk reads at most blockCount block headers, the
\* first at offset 12 and each next one at current + 6 + the declared
\* length; a walk that succeeds yields the blockCount entries in stream
\* order, and no block header is read after the last counted block.
C10_BlockWalk ==
    Walking =>
        LET n == Len(headerOffsets)
            blockCount == arrayBuffer[9] * 16777216 + arrayBuffer[10] * 65536
                              + arrayBuffer[11] * 256 + arrayBuffer[12]
        IN  /\ numberOfEntries = blockCount
            /\ n = Len(rawEntries)
            /\ n <= blockCount
            /\ n >= 1 => headerOffsets[1] = 12
            /\ \A i \in 1..(n - 1) :
                  headerOffsets[i + 1] =
                      headerOffsets[i] + 6 + DeclaredLength(arrayBuffer, headerOffsets[i])
            /\ n >= 1 =>
                  currentOffset =
                      headerOffsets[n] + 6 + DeclaredLength(arrayBuffer, headerOffsets[n])
            /\ \A i \in 1..n : headerOffsets[i] + 6 <= currentOffset
            /\ (pc = "returned" /\ diagnostic = "none") =>
                  /\ n = blockCount
                  /\ \A i \in 1..n :
                        rawEntries[i] = ReadBlock(arrayBuffer, headerOffsets[i]).entry

\* C10 as claimed: moreover no byte after the last counted block is read.
C10_NothingReadAfterLastBlock ==
    /\ C10_BlockWalk
    /\ (Walking /\ pc = "returned" /\ diagnostic = "none") => readEnd <= currentOffset

\* C10 witness: a walk of two blocks or more succeeded, one of them
\* declaring a length that is not the number of bytes its parser read.
C10_Witness ==
    /\ Walking /\ pc = "returned" /\ diagnostic = "none"
    /\ Len(headerOffsets) >= 2
    /\ \E i \in 1..(Len(headerOffsets) - 1) :
          ReadBlock(arrayBuffer, headerOffsets[i]).end # headerOffsets[i + 1]

\* The groups of a tree, at the top level and one level down.
GroupsIn(entries) ==
    {entries[x] : x \in {y \in 1..Len(entries) : entries[y].type = "group"}}
    \cup UNION {
        {entries[x].entries[z] :
            z \in {w \in 1..Len(entries[x].entries) : entries[x].entries[w].type = "group"}}
        : x \in {y \in 1..Len(entries) : entries[y].type = "group"}}

\* C11 as claimed: when a group-start B follows a group-start A and no
\* group-end was met since A, the tree holds A with, as children, exactly
\* the blocks met since A: B with no children, and every color after B.
C11_ChildOfOuterGroup ==
    \A i, j \in 1..reduced :
        (/\ i < j
         /\ rawEntries[i].type = "group"
         /\ rawEntries[j].type = "group"
         /\ \A p \in (i + 1)..reduced : rawEntries[p].type # "group-end")
        => \E g \in GroupsIn(accumulatedEntries) :
              g = [rawEntries[i] EXCEPT !.entries = SubSeq(rawEntries, i + 1, reduced)]

\* C11 (amended): when a group-start B follows the first group-start A of
\* the stream and no group-end was met since A, the last top-level entry is
\* A with, as children, exactly the blocks met since A: B with no children,
\* and every color after B.
C11_NestedGroupStaysEmpty ==
    \A i, j \in 1..reduced :
        (/\ i < j
         /\ rawEntries[i].type = "group"
         /\ rawEntries[j].type = "group"
         /\ \A p \in 1..(i - 1) : rawEntries[p].type # "group"
         /\ \A p \in (i + 1)..reduced : rawEntries[p].type # "group-end")
        => /\ accumulatedEntries # << >>
           /\ accumulatedEntries[Len(accumulatedEntries)] =
                 [rawEntries[i] EXCEPT !.entries = SubSeq(rawEntries, i + 1, reduced)]

\* C11 witness: group-start A, group-start B and a color were reduced; the
\* color is the last child of A and B has no children.
C11_Witness ==
    /\ reduced = 3
    /\ rawEntries[1].type = "group"
    /\ rawEntries[2].type = "group"
    /\ rawEntries[3].type = "color"
    /\ Len(accumulatedEntries) = 1
    /\ accumulatedEntries[1].entries = << rawEntries[2], rawEntries[3] >>
    /\ accumulatedEntries[1].entries[1].entries = << >>

\* The colors of a tree, at the top level and one level down.
ColorsIn(entries) ==
    {entries[x].color : x \in {y \in 1..Len(entries) : entries[y].type = "color"}}
    \cup UNION {
        {entries[x].entries[z].color :
            z \in {w \in 1..Len(entries[x].entries) : entries[x].entries[w].type = "color"}}
        : x \in {y \in 1..Len(entries) : entries[y].type = "group"}}

\* C12: the hex of every RGB or Gray color read returns is six characters,
\* each an upper-case hexadecimal digit.
C12_HexIsSixDigits ==
    (chain = "read" /\ pc = "returned") =>
        \A color \in ColorsIn(result) :
            color.model \in {"RGB", "Gray"} =>
                /\ Len(color.hex) = 6
                /\ \A i \in 1..Len(color.hex) :
                      color.hex[i] \in {"0", "1", "2", "3", "4", "5", "6", "7", "8", "9",
                                        "A", "B", "C", "D", "E", "F"}

\* The list without its entries of the given type.
RECURSIVE Without(_, _)
Without(entries, type) ==
    IF entries = << >> THEN << >>
    ELSE IF Head(entries).type = type THEN Without(Tail(entries), type)
    ELSE << Head(entries) >> \o Without(Tail(entries), type)

\* C13: once a group-start was reduced, the top level holds one group, the
\* first group-start of the stream, as its last entry; the entries before
\* it are the blocks before it, and its children are all the later blocks
\* but the group-ends, so no later block is appended to the top level.
C13_OneGroupAtTheEnd ==
    \A i \in 1..reduced :
        (/\ rawEntries[i].type = "group"
         /\ \A p \in 1..(i - 1) : rawEntries[p].type # "group")
        => /\ Len(accumulatedEntries) = i
           /\ SubSeq(accumulatedEntries, 1, i - 1) = SubSeq(rawEntries, 1, i - 1)
           /\ accumulatedEntries[i] =
                 [rawEntries[i] EXCEPT
                     !.entries = Without(SubSeq(rawEntries, i + 1, reduced), "group-end")]
           /\ (pc = "returned" /\ diagnostic = "none") => result = accumulatedEntries

\* C13 witness: a color met after the group-end of the only group became a
\* child of that group.
C13_Witness ==
    /\ reduced = 3
    /\ rawEntries[1].type = "group"
    /\ rawEntries[2].type = "group-end"
    /\ rawEntries[3].type = "color"
    /\ accumulatedEntries = << [rawEntries[1] EXCEPT !.entries = << rawEntries[3] >>] >>

\* The entries of a tree in pre-order, each group without its children.
RECURSIVE PreOrder(_)
PreOrder(entries) ==
    IF entries = << >> THEN << >>
    ELSE LET entry == Head(entries)
         IN  (IF entry.type = "group"
              THEN << [entry EXCEPT !.entries = << >>] >> \o PreOrder(entry.entries)
              ELSE << entry >>)
             \o PreOrder(Tail(entries))

\* C14: after every step of the reduction, and in what read returns, the
\* colors and groups of the tree in pre-order are the colors and
\* group-starts of the flat list reduced so far, in the same order.
C14_ReductionKeepsBlocks ==
    /\ Without(PreOrder(accumulatedEntries), "group-end")
          = Without(SubSeq(rawEntries, 1, reduced), "group-end")
    /\ (pc = "returned" /\ diagnostic = "none") =>
          Without(PreOrder(result), "group-end") = Without(rawEntries, "group-end")

\* C14 witness: read returned a tree for a flat list with a group-start
\* followed by two different blocks that are not group-ends.
C14_Witness ==
    /\ chain = "read" /\ pc = "returned" /\ diagnostic = "none"
    /\ Len(rawEntries) = 3
    /\ rawEntries[1].type = "group"
    /\ rawEntries[2].type # "group-end"
    /\ rawEntries[3].type # "group-end"
    /\ rawEntries[2] # rawEntries[3]
    /\ result = << [rawEntries[1] EXCEPT !.entries = << rawEntries[2], rawEntries[3] >>] >>

====
